---- MODULE Spec2Model ----
(***************************************************************************)
(* A model of go-json2csv: Convert (json2csv/convert.go) and its helpers   *)
(* getFlattenArrayPath, getValueByDotPath and valueToString                *)
(* (json2csv/utils.go), with the transformers of json2csv/types.go.        *)
(*                                                                         *)
(* Representation.                                                         *)
(*  - A decoded JSON value is a record tagged by t: "null", "str", "num",  *)
(*    "bool", "map", "seq".  A number keeps its literal text (the decoder  *)
(*    runs with UseNumber, so a number is a json.Number, i.e. a string).   *)
(*  - A Go string that is a path is the sequence of its atoms: each of the *)
(*    characters . [ * ] is an atom of its own, and a maximal run of other *)
(*    characters is one atom.  The string is the concatenation of its      *)
(*    atoms, so strings.Index, slicing and strings.Split act on atom       *)
(*    boundaries exactly as they act on the bytes.                         *)
(*  - A Go error is a record naming the format string that built it and    *)
(*    the arguments formatted into it.                                     *)
(***************************************************************************)
EXTENDS Integers, Sequences, FiniteSets, TLC

\* ------------------------------------------------------------ JSON values

Null == [t |-> "null"]
Str(s) == [t |-> "str", s |-> s]
Num(lit) == [t |-> "num", lit |-> lit]
Bool(b) == [t |-> "bool", b |-> b]
Map(m) == [t |-> "map", m |-> m]
Arr(e) == [t |-> "seq", e |-> e]
EmptyMap == Map([k \in {} |-> Null])

\* The keys of the modelled documents in the order sort.Strings gives them
\* (fmt prints a map with its keys sorted).
KeyOrder == <<"a", "b", "id", "items", "name", "tags">>

\* %T of a decoded value.
GoType(v) ==
  CASE v.t = "null" -> "<nil>"
    [] v.t = "str" -> "string"
    [] v.t = "num" -> "json.Number"
    [] v.t = "bool" -> "bool"
    [] v.t = "map" -> "map[string]interface {}"
    [] OTHER -> "[]interface {}"

\* ------------------------------------------------------------ errors

NoErr == [msg |-> "nil", path |-> <<>>, index |-> -1, type |-> "", cause |-> ""]
Errorf(msg, path, index, type, cause) ==
  [msg |-> msg, path |-> path, index |-> index, type |-> type, cause |-> cause]

\* ------------------------------------------------------------ strings

Marker == <<"[", "*", "]">>
Dot == "."

\* strings.Index(path, "[*]"): the 0-based place of the first marker, or -1.
StarIndex(path) ==
  LET hits == {i \in 1..Len(path) : i + 2 <= Len(path) /\ SubSeq(path, i, i + 2) = Marker}
  IN IF hits = {} THEN -1 ELSE (CHOOSE i \in hits : \A j \in hits : i <= j) - 1

HasSuffixDot(s) == Len(s) > 0 /\ s[Len(s)] = Dot
HasPrefixDot(s) == Len(s) > 0 /\ s[1] = Dot

RECURSIVE Concat(_)
\* The Go string an atom sequence stands for.
Concat(atoms) == IF atoms = <<>> THEN "" ELSE atoms[1] \o Concat(Tail(atoms))

RECURSIVE SplitFrom(_, _)
\* strings.Split(path, "."), given the segment read so far.
SplitFrom(path, seg) ==
  IF path = <<>> THEN <<Concat(seg)>>
  ELSE IF path[1] = Dot THEN <<Concat(seg)>> \o SplitFrom(Tail(path), <<>>)
  ELSE SplitFrom(Tail(path), Append(seg, path[1]))

Split(path) == SplitFrom(path, <<>>)

\* ------------------------------------------------------------ utils.go

RECURSIVE FmtV(_)
RECURSIVE FmtMap(_, _, _)
RECURSIVE FmtSeq(_, _)
\* fmt.Sprintf("%v", v) of a decoded value: a map prints as map[k:v k:v] with
\* its keys sorted, a slice as [v v], nil as <nil>.
FmtV(v) ==
  CASE v.t = "null" -> "<nil>"
    [] v.t = "str" -> v.s
    [] v.t = "num" -> v.lit
    [] v.t = "bool" -> (IF v.b THEN "true" ELSE "false")
    [] v.t = "map" -> "map[" \o FmtMap(v.m, 1, TRUE) \o "]"
    [] OTHER -> "[" \o FmtSeq(v.e, 1) \o "]"

FmtMap(m, i, first) ==
  IF i > Len(KeyOrder) THEN ""
  ELSE IF KeyOrder[i] \in DOMAIN m
    THEN (IF first THEN "" ELSE " ") \o KeyOrder[i] \o ":" \o FmtV(m[KeyOrder[i]])
         \o FmtMap(m, i + 1, FALSE)
    ELSE FmtMap(m, i + 1, first)

FmtSeq(e, i) ==
  IF i > Len(e) THEN ""
  ELSE (IF i = 1 THEN "" ELSE " ") \o FmtV(e[i]) \o FmtSeq(e, i + 1)

\* valueToString without its nil case: nil falls to %v.  C6 fails of it.
valueToString_NilAsV(value) ==
  CASE value.t = "str" -> value.s
    [] value.t = "bool" -> (IF value.b THEN "true" ELSE "false")
    [] value.t = "num" -> value.lit
    [] OTHER -> FmtV(value)

\* valueToString: nil is the empty string, a string itself, a json.Number its
\* literal text, a bool %t, anything else %v.
valueToString(value) ==
  IF value.t = "null" THEN ""
  ELSE CASE value.t = "str" -> value.s
         [] value.t = "bool" -> (IF value.b THEN "true" ELSE "false")
         [] value.t = "num" -> value.lit
         [] OTHER -> FmtV(value)

\* basePath of one field: the part before the marker, less one trailing dot.
BasePath(path) ==
  LET basePath == SubSeq(path, 1, StarIndex(path))
  IN IF HasSuffixDot(basePath) THEN SubSeq(basePath, 1, Len(basePath) - 1) ELSE basePath

RECURSIVE FlattenFrom(_, _)
FlattenFrom(fields, i) ==
  IF i > Len(fields) THEN <<>>
  ELSE IF StarIndex(fields[i].JSONPath) # -1 THEN BasePath(fields[i].JSONPath)
  ELSE FlattenFrom(fields, i + 1)

\* getFlattenArrayPath: the base path of the first field that has the marker,
\* the empty string when no field has it.
getFlattenArrayPath(fields) == FlattenFrom(fields, 1)

RECURSIVE WalkKeys(_, _, _)
\* The loop of getValueByDotPath at 1-based position i with currentValue cur.
WalkKeys(cur, keys, i) ==
  IF i > Len(keys) THEN [val |-> cur, err |-> NoErr]
  ELSE IF keys[i] = ""
    THEN [val |-> Null,
          err |-> Errorf("invalid dot path segment (empty key) at index %d",
                         <<>>, i - 1, "", "")]
  ELSE IF cur.t = "map"
    THEN IF keys[i] \notin DOMAIN cur.m
           THEN [val |-> Null, err |-> NoErr]
           ELSE WalkKeys(cur.m[keys[i]], keys, i + 1)
  ELSE IF cur.t = "null" THEN [val |-> Null, err |-> NoErr]
  ELSE IF i - 1 < Len(keys) - 1 THEN [val |-> Null, err |-> NoErr]
  ELSE WalkKeys(cur, keys, i + 1)

\* getValueByDotPath that answers nil to the empty path instead of the data
\* itself.  C5 fails of it.
getValueByDotPath_EmptyPathNil(data, path) ==
  IF path = <<>> THEN [val |-> Null, err |-> NoErr]
  ELSE WalkKeys(data, Split(path), 1)

\* getValueByDotPath(data, path): (value, error).
getValueByDotPath(data, path) ==
  IF path = <<>> THEN [val |-> data, err |-> NoErr]
  ELSE WalkKeys(data, Split(path), 1)

\* ------------------------------------------------------------ types.go

DefaultDelimiter == ","

\* json.Number.Int64 on the literals of the modelled documents: a literal of
\* one digit parses, a literal with a fraction does not.
DigitLits == <<"0", "1", "2", "3", "4", "5", "6", "7", "8", "9">>
IsInt64Lit(lit) == \E i \in 1..Len(DigitLits) : DigitLits[i] = lit

\* time.Unix(i, 0).Format("2006-01-02 15:04:05") for 0 <= i <= 9, in UTC.
UnixTimeText(lit) == "1970-01-01 00:00:0" \o lit

BoolToYesNo(value) ==
  IF value.t = "null" THEN [val |-> Str(""), err |-> NoErr]
  ELSE IF value.t = "bool"
    THEN [val |-> Str(IF value.b THEN "Yes" ELSE "No"), err |-> NoErr]
  ELSE [val |-> value, err |-> NoErr]

FormatUnixTimestamp(value) ==
  IF value.t = "null" THEN [val |-> Str(""), err |-> NoErr]
  ELSE IF value.t = "num"
    THEN IF IsInt64Lit(value.lit)
           THEN [val |-> Str(UnixTimeText(value.lit)), err |-> NoErr]
           ELSE [val |-> Null,
                 err |-> Errorf("FormatUnixTimestamp: cannot convert json.Number %q to int64",
                                <<>>, -1, "", value.lit)]
  ELSE [val |-> value,
        err |-> Errorf("FormatUnixTimestamp: unsupported non-nil type %T for timestamp",
                       <<>>, -1, GoType(value), "")]

ItemsSummaryTransformer(value) ==
  IF value.t = "null" THEN [val |-> Str("Null Array"), err |-> NoErr]
  ELSE IF value.t = "seq"
    THEN IF Len(value.e) = 0
           THEN [val |-> Str("Empty Array"), err |-> NoErr]
           ELSE [val |-> Str(ToString(Len(value.e)) \o " Items"), err |-> NoErr]
  ELSE [val |-> Str("Unexpected Type: " \o GoType(value)), err |-> NoErr]

\* A Field's Transformer, by name; "nil" is no transformer.  The modelled
\* transformers do not read originalRecord.
Transformers == {"nil", "BoolToYesNo", "FormatUnixTimestamp", "ItemsSummaryTransformer"}
ApplyTransformer(name, value, originalRecord) ==
  CASE name = "BoolToYesNo" -> BoolToYesNo(value)
    [] name = "FormatUnixTimestamp" -> FormatUnixTimestamp(value)
    [] name = "ItemsSummaryTransformer" -> ItemsSummaryTransformer(value)
    [] OTHER -> [val |-> value, err |-> NoErr]

Field(path, header, transformer) ==
  [JSONPath |-> path, CSVHeader |-> header, Transformer |-> transformer]

\* ------------------------------------------------------------ inputs

\* Bounds of the modelled inputs.
MaxElems == 2
MaxRecords == 2

P_id == <<"id">>
P_items == <<"items">> \o Marker
P_items_name == <<"items">> \o Marker \o <<".", "name">>
P_items_dot_name == <<"items", ".">> \o Marker \o <<".", "name">>
P_items_dotdot == <<"items", ".", ".">> \o Marker
P_tags == <<"tags">> \o Marker
P_star_name == Marker \o <<".", "name">>
P_a_b == <<"a", ".", "b">>
P_a__b == <<"a", ".", ".", "b">>
P_a_b_name == <<"a", ".", "b">> \o Marker \o <<".", "name">>

F_id == Field(P_id, "ID", "nil")
F_name == Field(P_items_name, "Name", "nil")

\* The field lists of the modelled runs.
FieldLists ==
  { <<F_id, F_name>>,
    <<F_id, Field(P_tags, "Tag", "nil")>>,
    <<F_id, Field(P_items, "Item", "nil")>>,
    <<F_id>>,
    <<>>,
    <<Field(P_star_name, "Name", "nil")>>,
    <<Field(P_a_b, "B", "nil"), F_name>>,
    <<F_name, Field(P_a__b, "B", "nil")>>,
    <<Field(P_items_dotdot, "Item", "nil")>>,
    <<Field(P_a_b_name, "Name", "nil")>>,
    <<F_id, Field(P_items_dot_name, "Name", "nil")>>,
    <<Field(P_a_b, "Active", "BoolToYesNo"), Field(P_id, "Created", "FormatUnixTimestamp"), F_name>>,
    <<F_id, Field(P_items_name, "Name", "FormatUnixTimestamp")>>,
    <<Field(<<"items">>, "Items", "ItemsSummaryTransformer"), F_name>>,
    <<Field(<<"name">>, "Parent", "nil"), F_name>> }

\* Options.Delimiter: "NUL" is the rune 0, the zero value of the field.
Delimiters == {"NUL", ",", ";"}

Options(fields, delimiter, addHeader) ==
  [Fields |-> fields, Delimiter |-> delimiter, AddHeader |-> addHeader]

OptionsSet ==
  {Options(f, ",", TRUE) : f \in FieldLists}
    \cup {Options(<<F_id, F_name>>, d, h) : d \in Delimiters, h \in BOOLEAN}

El_a == Map([name |-> Str("a")])
El_c == Map([name |-> Str("c")])
ElemPool == {Null, El_a, El_c, EmptyMap, Str("x")}

RECURSIVE SeqsUpTo(_, _)
\* The sequences over S of length at most n.
SeqsUpTo(S, n) ==
  IF n = 0 THEN {<<>>}
  ELSE LET shorter == SeqsUpTo(S, n - 1)
       IN shorter \cup {Append(q, x) : q \in {r \in shorter : Len(r) = n - 1}, x \in S}

Arrays == SeqsUpTo(ElemPool, MaxElems)

\* The objects an input array may hold.
Objects ==
  {Map([id |-> Num("1"), items |-> Arr(e)]) : e \in Arrays}
    \cup { Map([id |-> Num("1"), items |-> Null]),
           Map([id |-> Num("1"), tags |-> Arr(<<Str("x"), Str("y")>>)]),
           Map([id |-> Num("1"), items |-> Arr(<<El_a, Null, El_c>>)]),
           Map([items |-> Str("not-an-array")]),
           Map([id |-> Num("10.50"), items |-> Arr(<<Map([name |-> Null]), El_a>>)]),
           Map([id |-> Num("1.0"), items |-> Arr(<<El_a>>)]),
           Map([id |-> Num("5.00"), items |-> Arr(<<El_a>>)]),
           Map([a |-> Num("5"), items |-> Arr(<<El_a>>)]),
           Map([a |-> Null, items |-> Arr(<<El_a>>)]),
           Map([a |-> Map([b |-> Bool(TRUE)]), items |-> Arr(<<El_a, El_c>>)]),
           Map([a |-> Arr(<<El_a>>)]),
           Map([name |-> Str("p"), items |-> Arr(<<El_a, El_c>>)]),
           Map([a |-> Map([b |-> Arr(<<El_a, Null>>)])]) }

\* An entry that is cut short or is no JSON text: Decode fails on it.
Broken == [t |-> "broken"]

\* The entries of an input array: objects, other JSON values, broken text.
Entries ==
  Objects \cup {Null, Num("5"), Str("s"), Bool(TRUE), Arr(<<>>), Broken}

\* Entries that come before the last one in a modelled input.
LeadEntries ==
  { Map([id |-> Num("1"), items |-> Arr(<<El_a, Null, El_c>>)]),
    Map([id |-> Num("1"), items |-> Null]),
    Null }

\* An input stream: its first token ("EOF" for zero bytes, "[", "{" or "5" for
\* another top-level value, "?" for no JSON text), the entries that follow "[",
\* and what follows the last entry ("]", "EOF" for a cut stream, "}").
Stream(first, entries, closing) ==
  [first |-> first, entries |-> entries, closing |-> closing]

EntrySeqs ==
  {lead \o last : lead \in SeqsUpTo(LeadEntries, MaxRecords - 1),
                  last \in {<<>>} \cup {<<e>> : e \in Entries}}

Inputs ==
  {Stream(f, <<>>, "EOF") : f \in {"EOF", "{", "5", "?"}}
    \cup {Stream("[", es, "]") : es \in EntrySeqs}
    \cup {Stream("[", es, c) : es \in SeqsUpTo(LeadEntries, MaxRecords - 1), c \in {"EOF", "}"}}

\* ------------------------------------------------------------ convert.go

VARIABLES
  options,           \* the Options argument
  input,             \* the stream behind r
  pc,                \* where Convert is
  comma,             \* csvWriter.Comma
  out,               \* the records csvWriter has written, in order
  reads,             \* the Token and Decode calls made on the decoder
  pos,               \* the entries of the input array consumed
  flattenArrayPath,
  originalRecord,
  itemsToProcess,
  item,              \* 1-based place in itemsToProcess of the next item
  err                \* the error Convert returned, NoErr for nil

vars == <<options, input, pc, comma, out, reads, pos, flattenArrayPath,
          originalRecord, itemsToProcess, item, err>>

\* validDelim of encoding/csv, which Writer.Write asks before it writes.
ValidDelim(r) == r \notin {"NUL", "\"", "\r", "\n"}

\* csvWriter.Write(record): the output after it, and its error.
CsvWrite(w, delim, record) ==
  IF ValidDelim(delim)
    THEN [out |-> Append(w, record), err |-> NoErr]
    ELSE [out |-> w, err |-> Errorf("csv: invalid field or comment delimiter", <<>>, -1, "", "")]

HeaderRow(fields) == [i \in 1..Len(fields) |-> fields[i].CSVHeader]

\* The part of a field's path after the marker, less one leading dot.
PathAfterStar(path) ==
  LET pathAfterStar == SubSeq(path, StarIndex(path) + Len(Marker) + 1, Len(path))
  IN IF HasPrefixDot(pathAfterStar) THEN Tail(pathAfterStar) ELSE pathAfterStar

\* FieldValue that resolves every path against the item, marker or not.  C7
\* fails of it.
FieldValue_FromItem(field, itemData, record) ==
  LET path == IF StarIndex(field.JSONPath) # -1
                THEN PathAfterStar(field.JSONPath) ELSE field.JSONPath
      r == getValueByDotPath(itemData, path)
  IN IF r.err # NoErr
       THEN [val |-> Null,
             err |-> Errorf("failed to get value from array item for field %q (path after [*]: %q): %w",
                            field.JSONPath, -1, "", r.err.msg)]
       ELSE r

\* The value of one field for one array item: from the item when the path has
\* the marker, from the original record when it has not.
FieldValue(field, itemData, record) ==
  IF StarIndex(field.JSONPath) # -1
    THEN LET r == getValueByDotPath(itemData, PathAfterStar(field.JSONPath))
         IN IF r.err # NoErr
              THEN [val |-> Null,
                    err |-> Errorf("failed to get value from array item for field %q (path after [*]: %q): %w",
                                   field.JSONPath, -1, "", r.err.msg)]
              ELSE r
    ELSE LET r == getValueByDotPath(record, field.JSONPath)
         IN IF r.err # NoErr
              THEN [val |-> Null,
                    err |-> Errorf("failed to get value from record for field %q: %w",
                                   field.JSONPath, -1, "", r.err.msg)]
              ELSE r

\* One cell: the field's value, transformed when the field has a transformer,
\* then rendered.
Cell(field, itemData, record) ==
  LET v == FieldValue(field, itemData, record)
  IN IF v.err # NoErr THEN [cell |-> "", err |-> v.err]
     ELSE IF field.Transformer # "nil"
       THEN LET tr == ApplyTransformer(field.Transformer, v.val, record)
            IN IF tr.err # NoErr
                 THEN [cell |-> "",
                       err |-> Errorf("failed to transform field %q: %w",
                                      field.JSONPath, -1, "", tr.err.msg)]
                 ELSE [cell |-> valueToString(tr.val), err |-> NoErr]
       ELSE [cell |-> valueToString(v.val), err |-> NoErr]

RECURSIVE RowFrom(_, _, _, _, _)
\* The loop over options.Fields for one item, from field i with the cells so far.
RowFrom(fields, itemData, record, i, csvRow) ==
  IF i > Len(fields) THEN [row |-> csvRow, err |-> NoErr]
  ELSE LET c == Cell(fields[i], itemData, record)
       IN IF c.err # NoErr THEN [row |-> csvRow, err |-> c.err]
          ELSE RowFrom(fields, itemData, record, i + 1, Append(csvRow, c.cell))

BuildRow(fields, itemData, record) == RowFrom(fields, itemData, record, 1, <<>>)

RECURSIVE CollectItems_SkipNonObjects(_, _, _, _)
\* CollectItems that skips what is no object, as it skips null.  C4 fails of it.
CollectItems_SkipNonObjects(arr, path, i, items) ==
  IF i > Len(arr) THEN [items |-> items, err |-> NoErr]
  ELSE IF arr[i].t = "map"
    THEN CollectItems_SkipNonObjects(arr, path, i + 1, Append(items, arr[i]))
  ELSE CollectItems_SkipNonObjects(arr, path, i + 1, items)

RECURSIVE CollectItems(_, _, _, _)
\* The loop over the array at the flatten path: objects are kept, nulls are
\* skipped, anything else is an error that names its index.
CollectItems(arr, path, i, items) ==
  IF i > Len(arr) THEN [items |-> items, err |-> NoErr]
  ELSE IF arr[i].t = "map" THEN CollectItems(arr, path, i + 1, Append(items, arr[i]))
  ELSE IF arr[i].t = "null" THEN CollectItems(arr, path, i + 1, items)
  ELSE [items |-> <<>>,
        err |-> Errorf("array element at path %q index %d is not a JSON object, but %T",
                       path, i - 1, GoType(arr[i]), "")]

\* The items of one record: the error, or the items to process (none when the
\* record is skipped).
FlattenRecord(record, path) ==
  LET r == getValueByDotPath(record, path)
  IN IF r.err # NoErr
       THEN [items |-> <<>>,
             err |-> Errorf("failed to get array for flattening at path %q: %w",
                            path, -1, "", r.err.msg)]
     ELSE IF r.val.t = "null" THEN [items |-> <<>>, err |-> NoErr]
     ELSE IF r.val.t # "seq"
       THEN [items |-> <<>>,
             err |-> Errorf("value at flatten path %q is not an array or null, but %T",
                            path, -1, GoType(r.val), "")]
     ELSE CollectItems(r.val.e, path, 1, <<>>)

\* decoder.Decode(&originalRecord) on one entry: an object decodes, null leaves
\* the nil map, any other value or broken text is an error.
DecodeObject(entry) ==
  IF entry.t = "map" THEN [record |-> entry, err |-> NoErr]
  ELSE IF entry.t = "null" THEN [record |-> EmptyMap, err |-> NoErr]
  ELSE [record |-> EmptyMap,
        err |-> Errorf("failed to decode json object: %w", <<>>, -1,
                       IF entry.t = "broken" THEN "" ELSE GoType(entry), "")]

Return(e) == pc' = "done" /\ err' = e

Init ==
  /\ options \in OptionsSet
  /\ input \in Inputs
  /\ pc = "start"
  /\ comma = ","
  /\ out = <<>>
  /\ reads = 0
  /\ pos = 0
  /\ flattenArrayPath = <<>>
  /\ originalRecord = EmptyMap
  /\ itemsToProcess = <<>>
  /\ item = 1
  /\ err = NoErr

\* Lines 17-40: the delimiter, the writer, the header row.
WriteHeader ==
  /\ pc = "start"
  /\ LET delim == IF options.Delimiter = "," THEN DefaultDelimiter ELSE options.Delimiter
         w == IF options.AddHeader
                THEN CsvWrite(out, delim, HeaderRow(options.Fields))
                ELSE [out |-> out, err |-> NoErr]
     IN /\ comma' = delim
        /\ out' = w.out
        /\ IF w.err # NoErr
             THEN Return(Errorf("failed to write header: %w", <<>>, -1, "", w.err.msg))
             ELSE pc' = "token" /\ err' = err
  /\ UNCHANGED <<options, input, reads, pos, flattenArrayPath, originalRecord,
                 itemsToProcess, item>>

\* Lines 42-53: the first token.
ReadArrayStart ==
  /\ pc = "token"
  /\ reads' = reads + 1
  /\ CASE input.first = "EOF" -> Return(NoErr)
       [] input.first = "?" ->
            Return(Errorf("failed to read initial token: %w", <<>>, -1, "", ""))
       [] input.first # "[" ->
            Return(Errorf("expected start of json array \"[\", but got %v (%T)", <<>>, -1,
                          IF input.first = "{" THEN "json.Delim" ELSE "json.Number",
                          input.first))
       [] OTHER -> pc' = "check" /\ err' = err
  /\ UNCHANGED <<options, input, comma, out, pos, flattenArrayPath, originalRecord,
                 itemsToProcess, item>>

\* Lines 55-66: flattening is required.
CheckFlattening ==
  /\ pc = "check"
  /\ flattenArrayPath' = getFlattenArrayPath(options.Fields)
  /\ IF flattenArrayPath' = <<>>
       THEN Return(Errorf("flattening is the only supported mode. At least one Field JSONPath must contain '[*]'",
                          <<>>, -1, "", ""))
       ELSE pc' = "loop" /\ err' = err
  /\ UNCHANGED <<options, input, comma, out, reads, pos, originalRecord,
                 itemsToProcess, item>>

\* decoder.More(): an entry is left before the end of the array.
More == pos < Len(input.entries)

\* Lines 70-77: the next entry is decoded into originalRecord.
DecodeRecord ==
  /\ pc = "loop"
  /\ More
  /\ LET d == DecodeObject(input.entries[pos + 1])
     IN /\ originalRecord' = d.record
        /\ IF d.err # NoErr THEN Return(d.err) ELSE pc' = "flatten" /\ err' = err
  /\ reads' = reads + 1
  /\ pos' = pos + 1
  /\ itemsToProcess' = <<>>
  /\ item' = 1
  /\ UNCHANGED <<options, input, comma, out, flattenArrayPath>>

\* Lines 79-114: the array at the flatten path and its items.
FlattenArray ==
  /\ pc = "flatten"
  /\ LET f == FlattenRecord(originalRecord, flattenArrayPath)
     IN /\ itemsToProcess' = f.items
        /\ IF f.err # NoErr THEN Return(f.err)
           ELSE IF Len(f.items) = 0 THEN pc' = "loop" /\ err' = err
           ELSE pc' = "items" /\ err' = err
  /\ UNCHANGED <<options, input, comma, out, reads, pos, flattenArrayPath,
                 originalRecord, item>>

\* Lines 118-171: one item becomes one row, which is written.
ProcessItem ==
  /\ pc = "items"
  /\ LET b == BuildRow(options.Fields, itemsToProcess[item], originalRecord)
         w == CsvWrite(out, comma, b.row)
     IN IF b.err # NoErr THEN Return(b.err) /\ UNCHANGED <<out, item>>
        ELSE IF w.err # NoErr
          THEN /\ Return(Errorf("failed to write csv row: %w", <<>>, -1, "", w.err.msg))
               /\ UNCHANGED <<out, item>>
        ELSE /\ out' = w.out
             /\ item' = item + 1
             /\ pc' = IF item = Len(itemsToProcess) THEN "loop" ELSE "items"
             /\ err' = err
  /\ UNCHANGED <<options, input, comma, reads, pos, flattenArrayPath, originalRecord,
                 itemsToProcess>>

\* ReadArrayEnd that takes the end of the input for the closing bracket.  C10
\* fails of it.
ReadArrayEnd_AcceptsEOF ==
  /\ pc = "loop"
  /\ pos >= Len(input.entries)
  /\ reads' = reads + 1
  /\ CASE input.closing \notin {"]", "EOF"} ->
            Return(Errorf("failed to read final token: %w", <<>>, -1, "", ""))
       [] OTHER -> Return(NoErr)
  /\ UNCHANGED <<options, input, comma, out, pos, flattenArrayPath, originalRecord,
                 itemsToProcess, item>>

\* Lines 174-192: the closing bracket, the flush, success.
ReadArrayEnd ==
  /\ pc = "loop"
  /\ ~More
  /\ reads' = reads + 1
  /\ CASE input.closing = "EOF" ->
            Return(Errorf("unexpected EOF while expecting end of array ']'", <<>>, -1, "", ""))
       [] input.closing # "]" ->
            Return(Errorf("failed to read final token: %w", <<>>, -1, "", ""))
       [] OTHER -> Return(NoErr)
  /\ UNCHANGED <<options, input, comma, out, pos, flattenArrayPath, originalRecord,
                 itemsToProcess, item>>

Next ==
  \/ WriteHeader
  \/ ReadArrayStart
  \/ CheckFlattening
  \/ DecodeRecord
  \/ FlattenArray
  \/ ProcessItem
  \/ ReadArrayEnd

Spec == Init /\ [][Next]_vars

\* ------------------------------------------------------------ observations

\* The rows written for the record being processed: one per item done.
RowsOfRecord == SubSeq(out, Len(out) - (item - 1) + 1, Len(out))

\* The data rows of the output: the rows after the header row.
DataRows == IF options.AddHeader /\ Len(out) > 0 THEN Tail(out) ELSE out

\* The (data, path) pair field i hands to getValueByDotPath for itemData.
FieldCall(field, itemData, record) ==
  IF StarIndex(field.JSONPath) # -1
    THEN [data |-> itemData, path |-> PathAfterStar(field.JSONPath)]
    ELSE [data |-> record, path |-> field.JSONPath]

\* The calls of getValueByDotPath that the next step of Convert makes: the one
\* on the flatten path, or those of the fields of the next row up to the first
\* field that fails.
CallsNow ==
  IF pc = "flatten" THEN {[data |-> originalRecord, path |-> flattenArrayPath]}
  ELSE IF pc = "items"
    THEN {FieldCall(options.Fields[i], itemsToProcess[item], originalRecord) :
            i \in {j \in 1..Len(options.Fields) :
                     \A h \in 1..(j - 1) :
                       Cell(options.Fields[h], itemsToProcess[item], originalRecord).err = NoErr}}
  ELSE {}

HasMarker(fields) == \E i \in 1..Len(fields) : StarIndex(fields[i].JSONPath) # -1

\* The errors of Convert by the kinds of the specification.
IsConfigurationError(e) ==
  e.msg = "flattening is the only supported mode. At least one Field JSONPath must contain '[*]'"
IsFormatError(e) ==
  e.msg \in { "failed to read initial token: %w",
              "expected start of json array \"[\", but got %v (%T)",
              "failed to decode json object: %w",
              "unexpected EOF while expecting end of array ']'",
              "failed to read final token: %w" }
IsShapeError(e) ==
  e.msg \in { "value at flatten path %q is not an array or null, but %T",
              "array element at path %q index %d is not a JSON object, but %T" }

\* A non-empty path none of whose segments is empty.
WellFormed(path) ==
  path # <<>> /\ \A i \in 1..Len(Split(path)) : Split(path)[i] # ""

\* ------------------------------------------------------------ C1

\* C1: Convert fails with the ConfigurationError exactly when no field path
\* contains the marker: whatever the input, a field list without the marker
\* ends in the configuration error, and one with the marker never does.
C1_ConfigErrorIffNoMarker ==
  pc = "done" => (IsConfigurationError(err) <=> ~HasMarker(options.Fields))

\* ------------------------------------------------------------ C2

RECURSIVE MeetsNonMapping(_, _, _)
\* Traversal from cur, with the segments from i on still to consume, meets a
\* value that is neither a mapping nor null while a segment is left.
MeetsNonMapping(cur, keys, i) ==
  /\ i <= Len(keys)
  /\ IF cur.t = "map"
       THEN keys[i] \in DOMAIN cur.m /\ MeetsNonMapping(cur.m[keys[i]], keys, i + 1)
       ELSE cur.t # "null"

RECURSIVE Descend(_, _, _)
\* The value reached by consuming every segment as a key of a mapping, null
\* when that cannot be done.
Descend(cur, keys, i) ==
  IF i > Len(keys) THEN cur
  ELSE IF cur.t = "map" /\ keys[i] \in DOMAIN cur.m
    THEN Descend(cur.m[keys[i]], keys, i + 1)
  ELSE Null

\* C2: for a non-empty path with no empty segment, getValueByDotPath returns
\* null and no error when traversal meets a non-mapping, non-null value with a
\* segment still to consume (also when it is the last one), and it returns a
\* non-mapping leaf only when the last segment was consumed as a key of a mapping.
C2_NonMappingBeforeEnd ==
  \A c \in CallsNow :
    WellFormed(c.path) =>
      LET r == getValueByDotPath(c.data, c.path)
      IN /\ MeetsNonMapping(c.data, Split(c.path), 1) => r = [val |-> Null, err |-> NoErr]
         /\ r.val.t \notin {"null", "map"} => r.val = Descend(c.data, Split(c.path), 1)

\* ------------------------------------------------------------ C3

\* The value at the flatten path of a record, reached through mappings only.
FlattenTarget(record) == Descend(record, Split(flattenArrayPath), 1)

\* The elements of a record's flatten target that are not null; none when the
\* target is missing, null or no sequence.
NonNullElements(record) ==
  LET target == FlattenTarget(record)
  IN IF target.t = "seq" THEN SelectSeq(target.e, LAMBDA e : e.t # "null") ELSE <<>>

RECURSIVE RowsOfElements(_, _, _)
RowsOfElements(elements, record, i) ==
  IF i > Len(elements) THEN <<>>
  ELSE <<BuildRow(options.Fields, elements[i], record).row>>
         \o RowsOfElements(elements, record, i + 1)

RECURSIVE RowsOfEntries(_, _)
\* One row per non-null element, elements in their order, records in input order.
RowsOfEntries(entries, i) ==
  IF i > Len(entries) THEN <<>>
  ELSE LET record == DecodeObject(entries[i]).record
       IN RowsOfElements(NonNullElements(record), record, 1) \o RowsOfEntries(entries, i + 1)

\* C3: a record whose flatten target is a sequence of mappings and nulls gives
\* exactly one data row per non-null element, in element order and with the
\* records in input order; a record whose flatten target is missing, null,
\* empty or all nulls gives no row, and the run goes on without an error.
C3_OneRowPerNonNullElement ==
  (pc = "done" /\ err = NoErr /\ input.first = "[") =>
    DataRows = RowsOfEntries(input.entries, 1)

\* ------------------------------------------------------------ C4

\* The first place (1-based) of arr with an element that is neither a mapping
\* nor null, 0 when there is none.
FirstNonObject(arr) ==
  LET bad == {i \in 1..Len(arr) : arr[i].t \notin {"map", "null"}}
  IN IF bad = {} THEN 0 ELSE CHOOSE i \in bad : \A j \in bad : i <= j

\* The value Convert resolved at the flatten path of the record it holds.
ArrayValue == getValueByDotPath(originalRecord, flattenArrayPath)

\* The resolved value is non-null and no sequence, or a sequence with an
\* element that is neither a mapping nor null.
BadShape ==
  /\ ArrayValue.err = NoErr
  /\ \/ ArrayValue.val.t \notin {"null", "seq"}
     \/ ArrayValue.val.t = "seq" /\ FirstNonObject(ArrayValue.val.e) # 0

\* The error the claim asks for: it names the flatten path, the type met and,
\* for an element, its 0-based index in the sequence as it stands in the record.
NamesTheOffender(e) ==
  /\ IsShapeError(e)
  /\ e.path = flattenArrayPath
  /\ IF ArrayValue.val.t = "seq"
       THEN LET i == FirstNonObject(ArrayValue.val.e)
            IN e.index = i - 1 /\ e.type = GoType(ArrayValue.val.e[i])
       ELSE e.type = GoType(ArrayValue.val)

\* C4: when the value resolved at the flatten path is non-null and no sequence,
\* or an element of the sequence is neither a mapping nor null, the run ends
\* there with a ShapeError naming the flatten path, the type and (for an
\* element) its index in the original sequence; nothing is written for the
\* record and it is not skipped.
C4_ShapeErrorAborts ==
  [][(pc = "flatten" /\ BadShape) =>
       (pc' = "done" /\ NamesTheOffender(err') /\ out' = out)]_vars

\* A run ended by the element at index 1, which follows an object or a null.
C4_Witness ==
  pc = "done" /\ BadShape /\ IsShapeError(err) /\ err.index = 1 /\ err.type = "string"

\* ------------------------------------------------------------ C5

ScenarioA_Options == Options(<<F_id, Field(P_tags, "Tag", "nil")>>, ",", TRUE)
ScenarioA_Input ==
  Stream("[", <<Map([id |-> Num("1"), tags |-> Arr(<<Str("x"), Str("y")>>)])>>, "]")
ItemSelf_Options == Options(<<F_id, Field(P_items, "Item", "nil")>>, ",", TRUE)
ScenarioC_Input ==
  Stream("[", <<Map([id |-> Num("1"), items |-> Arr(<<El_a, Null, El_c>>)])>>, "]")

\* C5 as stated: with a path that ends with the marker the element itself is
\* the value, so [{"id":1,"tags":["x","y"]}] with fields id, tags[*] gives
\* exactly the rows ("1","x") and ("1","y") and no error.
C5_ScalarElementsGiveRows ==
  (options = ScenarioA_Options /\ input = ScenarioA_Input /\ pc = "done") =>
    (err = NoErr /\ DataRows = << <<"1", "x">>, <<"1", "y">> >>)

\* C5 as amended: with a path that ends with the marker the element itself is
\* the value of the field, and the element is an object: every row of a record
\* has in that column the %v text of the object it was made from (map[name:a]);
\* a scalar element ends the run, so [{"id":1,"tags":["x","y"]}] with fields
\* id, tags[*] gives no data row and the error that names tags, index 0 and
\* the type string.
C5_ElementIsValue ==
  /\ \A j \in 1..(item - 1) : \A f \in 1..Len(options.Fields) :
       (/\ StarIndex(options.Fields[f].JSONPath) # -1
        /\ PathAfterStar(options.Fields[f].JSONPath) = <<>>
        /\ options.Fields[f].Transformer = "nil") =>
         /\ itemsToProcess[j].t = "map"
         /\ RowsOfRecord[j][f] = FmtV(itemsToProcess[j])
  /\ (options = ItemSelf_Options /\ input = ScenarioC_Input /\ pc = "done") =>
       (err = NoErr /\ DataRows = << <<"1", "map[name:a]">>, <<"1", "map[name:c]">> >>)
  /\ (options = ScenarioA_Options /\ input = ScenarioA_Input /\ pc = "done") =>
       /\ err = Errorf("array element at path %q index %d is not a JSON object, but %T",
                       <<"tags">>, 0, "string", "")
       /\ DataRows = <<>>

\* Two objects of one array were rendered in the column of items[*].
C5_Witness ==
  /\ options = ItemSelf_Options
  /\ item = 3
  /\ RowsOfRecord = << <<"1", "map[name:a]">>, <<"1", "map[name:c]">> >>

\* ------------------------------------------------------------ C6

RECURSIVE NullOrMissing(_, _, _)
\* Traversal from cur with the segments from i on meets a missing key, a null
\* before the end of the path, or a null at its end.
NullOrMissing(cur, keys, i) ==
  IF i > Len(keys) THEN cur.t = "null"
  ELSE IF cur.t = "null" THEN TRUE
  ELSE IF cur.t = "map"
    THEN keys[i] \notin DOMAIN cur.m \/ NullOrMissing(cur.m[keys[i]], keys, i + 1)
  ELSE FALSE

GetValueErrors ==
  { "failed to get array for flattening at path %q: %w",
    "failed to get value from array item for field %q (path after [*]: %q): %w",
    "failed to get value from record for field %q: %w" }

\* The path whose resolution failed, from the error that reports it.
FailedPath(e) ==
  IF e.msg = "failed to get value from array item for field %q (path after [*]: %q): %w"
    THEN PathAfterStar(e.path)
    ELSE e.path

\* C6: a well-formed path that meets a missing key, a null intermediate or a
\* null leaf, in the record or in an array element, never makes Convert fail
\* (resolution gives null and no error, and a run ends with a resolution error
\* only for a path that is not well-formed), and the cell of a field without a
\* transformer is then the empty string in all three cases.
C6_UnresolvedIsEmptyCell ==
  /\ \A c \in CallsNow :
       (WellFormed(c.path) /\ NullOrMissing(c.data, Split(c.path), 1)) =>
         getValueByDotPath(c.data, c.path) = [val |-> Null, err |-> NoErr]
  /\ (pc = "done" /\ err.msg \in GetValueErrors) => ~WellFormed(FailedPath(err))
  /\ \A j \in 1..(item - 1) : \A f \in 1..Len(options.Fields) :
       LET c == FieldCall(options.Fields[f], itemsToProcess[j], originalRecord)
       IN (/\ options.Fields[f].Transformer = "nil"
           /\ WellFormed(c.path)
           /\ NullOrMissing(c.data, Split(c.path), 1)) =>
            RowsOfRecord[j][f] = ""

\* A row was written whose first cell comes from a.b with a null at a, and a
\* row whose cell comes from a key the element does not have.
C6_Witness ==
  /\ item >= 2
  /\ Len(options.Fields) = 2
  /\ options.Fields[1].JSONPath = P_a_b
  /\ options.Fields[1].Transformer = "nil"
  /\ "a" \in DOMAIN originalRecord.m
  /\ originalRecord.m["a"] = Null
  /\ RowsOfRecord[1] = <<"", "a">>

\* ------------------------------------------------------------ C7

C8_EmptySegmentAlwaysFails ==
  \A c \in CallsNow :
    (c.path # <<>> /\ ~WellFormed(c.path)) => getValueByDotPath(c.data, c.path).err # NoErr

\* ------------------------------------------------------------ C9

\* C9: an entry of the input array that is not a JSON object (a number, a
\* string, a boolean, an array, null) ends the run with the decode error when
\* it is decoded; none is accepted or skipped.
C9_NonObjectEntryFails ==
  \A i \in 1..pos :
    input.entries[i].t # "map" =>
      (pc = "done" /\ err.msg = "failed to decode json object: %w")

\* ------------------------------------------------------------ C10

\* C10: Convert returns success only after the opening bracket, the entries
\* and the closing bracket were consumed in that order; zero bytes of input, a
\* first token other than the opening bracket, or an end of input before the
\* closing bracket end in a FormatError, and the complete empty array succeeds
\* with the header row alone, or no output.
C10_DoneOnlyAfterClosedArray ==
  pc = "done" =>
    /\ err = NoErr =>
         (input.first = "[" /\ pos = Len(input.entries) /\ input.closing = "]"
            /\ reads = Len(input.entries) + 2)
    /\ (reads >= 1 /\ input.first # "[") => IsFormatError(err)
    /\ (reads = Len(input.entries) + 2 /\ input.closing = "EOF") => IsFormatError(err)
    /\ (reads = 2 /\ input.entries = <<>> /\ input.closing = "]") =>
         (err = NoErr /\ DataRows = <<>>)

\* C10 as amended: Convert returns success only after the opening bracket, the
\* entries and the closing bracket were consumed in that order, or when the
\* input is zero bytes long, which is success with the header row alone or no
\* output; once the first token is read, a first token other than the opening
\* bracket is a FormatError; once the entries are consumed, the end of the
\* input in place of the closing bracket is a FormatError; the complete empty
\* array succeeds with the header row alone, or no output.
C10_DoneAfterClosedArrayOrNoInput ==
  pc = "done" =>
    /\ err = NoErr =>
         \/ input.first = "EOF" /\ reads = 1 /\ pos = 0 /\ DataRows = <<>>
         \/ /\ input.first = "[" /\ pos = Len(input.entries) /\ input.closing = "]"
            /\ reads = Len(input.entries) + 2
    /\ (reads >= 1 /\ input.first = "EOF") => err = NoErr
    /\ (reads >= 1 /\ input.first \notin {"[", "EOF"}) => IsFormatError(err)
    /\ (reads = Len(input.entries) + 2 /\ input.closing = "EOF") => IsFormatError(err)
    /\ (reads = 2 /\ input.entries = <<>> /\ input.closing = "]") =>
         (err = NoErr /\ DataRows = <<>>)

\* Convert returned success on zero bytes of input, the header row written.
C10_Witness ==
  /\ pc = "done"
  /\ err = NoErr
  /\ input.first = "EOF"
  /\ reads = 1
  /\ out = <<HeaderRow(options.Fields)>>

\* ------------------------------------------------------------ C11

\* C11: when Convert fails with the ConfigurationError, it fails before any
\* I/O: nothing, not even the header row, has been or will be written, and no
\* token has been read from the input.
C11_ConfigErrorBeforeAnyIO ==
  (pc = "done" /\ IsConfigurationError(err)) => (out = <<>> /\ reads = 0)

\* ------------------------------------------------------------ C12

\* The number literals of the modelled inputs, each with its integer part and
\* the digits of its fraction.
NumberSyntax(lit) ==
  CASE lit = "1" -> [int |-> "1", frac |-> <<>>]
    [] lit = "5" -> [int |-> "5", frac |-> <<>>]
    [] lit = "1.0" -> [int |-> "1", frac |-> <<"0">>]
    [] lit = "5.00" -> [int |-> "5", frac |-> <<"0", "0">>]
    [] lit = "10.50" -> [int |-> "10", frac |-> <<"5", "0">>]

RECURSIVE StripZeros(_)
\* The digits of a fraction without its trailing zeros.
StripZeros(frac) ==
  IF frac = <<>> THEN <<>>
  ELSE IF frac[Len(frac)] = "0" THEN StripZeros(SubSeq(frac, 1, Len(frac) - 1))
  ELSE frac

\* The shortest decimal text that gives back the value of a literal: no decimal
\* point for an integral value, no trailing zero in a fraction.
ShortestText(lit) ==
  LET n == NumberSyntax(lit)
      f == StripZeros(n.frac)
  IN IF f = <<>> THEN n.int ELSE n.int \o "." \o Concat(f)

\* C12: a numeric leaf taken from the input by a field without a transformer
\* renders as the shortest text of its value: without a decimal point when the
\* value is integral, however it is written, and without trailing zeros when it
\* has a fraction.
C12_NumbersRenderShortest ==
  \A j \in 1..(item - 1) : \A f \in 1..Len(options.Fields) :
    LET v == FieldValue(options.Fields[f], itemsToProcess[j], originalRecord)
    IN (/\ options.Fields[f].Transformer = "nil"
        /\ v.err = NoErr
        /\ v.val.t = "num") =>
         RowsOfRecord[j][f] = ShortestText(v.val.lit)

\* ------------------------------------------------------------ C13

\* The error csv.Writer.Write gives for a delimiter it does not accept.
IsDelimiterError(e) ==
  /\ e.msg \in {"failed to write header: %w", "failed to write csv row: %w"}
  /\ e.cause = "csv: invalid field or comment delimiter"

\* C13: with the delimiter left unset in the options, Convert writes with the
\* comma as field delimiter and does not fail because of the delimiter.
C13_UnsetDelimiterIsComma ==
  (options.Delimiter = "NUL" /\ pc # "start") =>
    (comma = "," /\ ~IsDelimiterError(err))

\* ------------------------------------------------------------ C14

\* A fatal error of the processing of one record: a shape error, a path that
\* cannot be resolved, a transformer that fails.
IsRecordError(e) ==
  \/ IsShapeError(e)
  \/ e.msg \in GetValueErrors
  \/ e.msg = "failed to transform field %q: %w"

RECURSIVE RowsOfRecords(_, _)
\* The rows of the first n entries of the input, each processed to its end.
RowsOfRecords(entries, n) ==
  IF n = 0 THEN <<>>
  ELSE LET record == DecodeObject(entries[n]).record
           items == FlattenRecord(record, flattenArrayPath).items
       IN RowsOfRecords(entries, n - 1) \o RowsOfElements(items, record, 1)

\* C14: when the processing of a record ends in a fatal error, the output
\* holds every row of the earlier records and no row of the failing record,
\* and no later record is processed.
C14_NoRowOfFailingRecord ==
  (pc = "done" /\ IsRecordError(err)) =>
    DataRows = RowsOfRecords(input.entries, pos - 1)

====
